---- MODULE Spec2Model ----
(***************************************************************************)
(* OPFS_POC: the Channel Bridge (src/src/OPFS.ts) and the isolated worker  *)
(* context (src/src/opfs.worker.ts) as one state machine.                  *)
(*                                                                         *)
(* A JavaScript string is a sequence of UTF-16 code units, a file is a     *)
(* sequence of bytes.  File names are strings too.                         *)
(***************************************************************************)
EXTENDS Integers, Sequences, FiniteSets, TLC

\* ---------------------------------------------------------------- bounds
MaxCalls == 2
MaxWorkers == 2
MaxFaults == 1
MaxSeqCalls == 3
MaxListCalls == 4

\* ------------------------------------------------- text encoding / decoding
REPLACEMENT == 65533
BOM == 65279

IsHigh(u) == u >= 55296 /\ u <= 56319
IsLow(u) == u >= 56320 /\ u <= 57343

\* UTF-8 bytes of one Unicode scalar value
Utf8Bytes(cp) ==
    IF cp < 128 THEN <<cp>>
    ELSE IF cp < 2048 THEN <<192 + (cp \div 64), 128 + (cp % 64)>>
    ELSE IF cp < 65536
         THEN <<224 + (cp \div 4096), 128 + ((cp \div 64) % 64), 128 + (cp % 64)>>
    ELSE <<240 + (cp \div 262144), 128 + ((cp \div 4096) % 64),
           128 + ((cp \div 64) % 64), 128 + (cp % 64)>>

\* new TextEncoder().encode(content): a surrogate pair is one scalar value,
\* an unpaired surrogate is encoded as U+FFFD
RECURSIVE Encode(_)
Encode(s) ==
    IF s = <<>> THEN <<>>
    ELSE IF IsHigh(s[1]) /\ Len(s) >= 2 /\ IsLow(s[2])
         THEN Utf8Bytes(65536 + (s[1] - 55296) * 1024 + (s[2] - 56320))
              \o Encode(SubSeq(s, 3, Len(s)))
    ELSE IF IsHigh(s[1]) \/ IsLow(s[1])
         THEN Utf8Bytes(REPLACEMENT) \o Encode(Tail(s))
    ELSE Utf8Bytes(s[1]) \o Encode(Tail(s))

\* UTF-16 code units of one scalar value
Utf16Units(cp) ==
    IF cp < 65536 THEN <<cp>>
    ELSE <<55296 + ((cp - 65536) \div 1024), 56320 + ((cp - 65536) % 1024)>>

IsCont(b, i, lo, hi) == i <= Len(b) /\ b[i] >= lo /\ b[i] <= hi

\* the UTF-8 decoder: an ill-formed subsequence becomes U+FFFD
RECURSIVE Utf8Decode(_)
Utf8Decode(b) ==
    IF b = <<>> THEN <<>>
    ELSE LET c == b[1] IN
         IF c < 128 THEN <<c>> \o Utf8Decode(Tail(b))
         ELSE IF c >= 194 /\ c <= 223 /\ IsCont(b, 2, 128, 191)
              THEN Utf16Units((c - 192) * 64 + (b[2] - 128))
                   \o Utf8Decode(SubSeq(b, 3, Len(b)))
         ELSE IF c >= 224 /\ c <= 239
                 /\ IsCont(b, 2, IF c = 224 THEN 160 ELSE 128,
                                 IF c = 237 THEN 159 ELSE 191)
                 /\ IsCont(b, 3, 128, 191)
              THEN Utf16Units((c - 224) * 4096 + (b[2] - 128) * 64 + (b[3] - 128))
                   \o Utf8Decode(SubSeq(b, 4, Len(b)))
         ELSE IF c >= 240 /\ c <= 244
                 /\ IsCont(b, 2, IF c = 240 THEN 144 ELSE 128,
                                 IF c = 244 THEN 143 ELSE 191)
                 /\ IsCont(b, 3, 128, 191) /\ IsCont(b, 4, 128, 191)
              THEN Utf16Units((c - 240) * 262144 + (b[2] - 128) * 4096
                              + (b[3] - 128) * 64 + (b[4] - 128))
                   \o Utf8Decode(SubSeq(b, 5, Len(b)))
         ELSE <<REPLACEMENT>> \o Utf8Decode(Tail(b))

\* file.text(): "UTF-8 decode", which drops a leading byte order mark
Decode(b) ==
    IF Len(b) >= 3 /\ b[1] = 239 /\ b[2] = 187 /\ b[3] = 191
    THEN Utf8Decode(SubSeq(b, 4, Len(b)))
    ELSE Utf8Decode(b)

\* syncHandle.truncate(newSize): cut, or extend with zero bytes
Truncate(b, n) ==
    IF n <= Len(b) THEN SubSeq(b, 1, n)
    ELSE b \o [i \in 1..(n - Len(b)) |-> 0]

\* syncHandle.write(buf, {at}): overwrite in place from offset at, growing the
\* file when the buffer reaches past its end
WriteAt(b, buf, at) ==
    LET base == IF Len(b) < at THEN Truncate(b, at) ELSE b
        n == IF at + Len(buf) > Len(base) THEN at + Len(buf) ELSE Len(base)
    IN [i \in 1..n |-> IF i > at /\ i <= at + Len(buf) THEN buf[i - at] ELSE base[i]]

\* ------------------------------------------------------------ input domains
NameA == <<97>>
NameB == <<98>>
NameHidden == <<46, 104>>
TextBC == <<98, 99>>
TextA == <<97>>
TextLone == <<55357>>
TextBomA == <<BOM, 97>>
NoField == <<>>

FileOps == {"create", "read", "update", "delete"}
WriteOps == {"create", "update"}
ApiTypes == {"init", "list"} \cup FileOps
Names == {NameA, NameB, NameHidden}
Contents == {TextBC, TextA, TextLone, TextBomA}

\* ------------------------------------------------------------------- state
VARIABLES
    worker,     \* OPFS.ts `worker`: 0 is null, otherwise the instance number
    nWorkers,   \* number of Worker instances constructed so far
    listeners,  \* per instance: the handlers set on it ("message", "error")
    pending,    \* OPFS.ts `pending`: correlation id -> the call whose resolvers it holds
    calls,      \* the calls issued: the request and the instance it was posted to
    promise,    \* per call: state of the promise returned to the caller
    h,          \* per call: the run of self.onmessage for its envelope
    outbox,     \* per call: Result Envelopes its run posted, not yet handled by the bridge
    fs,         \* the origin private file system, shared by all instances
    hasOPFS,    \* navigator.storage.getDirectory is present
    persist,    \* navigator.storage.persist: absent, or what a call of it does
    live,       \* instances whose context still runs
    errored,    \* instances that have reported an uncaught error
    faults,     \* backend I/O failures injected so far
    discarded   \* the listener has dropped a message that matched no pending entry

vars == <<worker, nWorkers, listeners, pending, calls, promise, h, outbox, fs,
          hasOPFS, persist, live, errored, faults, discarded>>

Undefined == [t |-> "undefined"]
Str(s) == [t |-> "string", s |-> s]
Arr(a) == [t |-> "array", a |-> a]
Err(m) == [t |-> "Error", message |-> m]

NoFile == [exists |-> FALSE, bytes |-> <<>>, lock |-> 0, mod |-> <<0, 0>>]
IdleRun == [pc |-> "none", snap |-> <<0, 0>>, out |-> <<>>]
FreshPromise == [st |-> "pending", val |-> Undefined, n |-> 0]

Issued == 1..Len(calls)
Req(k) == calls[k].req
Settled(k) == promise[k].st # "pending"

\* ------------------------------------------------------- the Channel Bridge
\* crypto.randomUUID(): the n-th identifier drawn differs from all before it
randomUUID(n) == n + 1

\* variant: the lookup ignores the correlation id and takes the oldest entry
PendingGetOldest(p, id) ==
    IF DOMAIN p = {} THEN 0
    ELSE p[CHOOSE i \in DOMAIN p : \A j \in DOMAIN p : i <= j]

\* Map.get / Map.set / Map.delete on `pending`; 0 stands for undefined
PendingGet(p, id) == IF id \in DOMAIN p THEN p[id] ELSE 0
PendingSet(p, id, k) == [i \in DOMAIN p \cup {id} |-> IF i = id THEN k ELSE p[i]]

\* variant: the listener leaves the entry in the registry
PendingDeleteNothing(p, id) == p

PendingDelete(p, id) == [i \in DOMAIN p \ {id} |-> p[i]]

\* resolvers.resolve / resolvers.reject: the first invocation settles the
\* promise, n counts the invocations
Resolve(pr, data) ==
    IF pr.st = "pending" THEN [st |-> "fulfilled", val |-> data, n |-> pr.n + 1]
    ELSE [pr EXCEPT !.n = @ + 1]
Reject(pr, reason) ==
    IF pr.st = "pending" THEN [st |-> "rejected", val |-> reason, n |-> pr.n + 1]
    ELSE [pr EXCEPT !.n = @ + 1]

\* variant: the listener resolves whatever the tag says
SettleAlwaysResolve(pr, env) ==
    Resolve(pr, IF env.ok THEN env.data ELSE Err(env.error))

\* the listener's choice between resolve and reject
SettleWith(pr, env) ==
    IF env.ok THEN Resolve(pr, env.data) ELSE Reject(pr, Err(env.error))

\* variant: an envelope without a pending entry rejects every pending call
OnMessageRejectAll(env) ==
    LET resolvers == PendingGet(pending, env.correlationId) IN
    IF resolvers = 0
    THEN /\ discarded' = TRUE
         /\ pending' = <<>>
         /\ promise' = [k \in DOMAIN promise |->
                          IF \E i \in DOMAIN pending : pending[i] = k
                          THEN Reject(promise[k], Err("unexpected response"))
                          ELSE promise[k]]
    ELSE /\ pending' = PendingDelete(pending, env.correlationId)
         /\ promise' = [promise EXCEPT ![resolvers] = SettleWith(@, env)]
         /\ UNCHANGED discarded

\* w.onmessage set by attachResponseListener
OnMessage(env) ==
    LET resolvers == PendingGet(pending, env.correlationId) IN
    IF resolvers = 0
    THEN /\ discarded' = TRUE
         /\ UNCHANGED <<pending, promise>>
    ELSE /\ pending' = PendingDelete(pending, env.correlationId)
         /\ promise' = [promise EXCEPT ![resolvers] = SettleWith(@, env)]
         /\ UNCHANGED discarded

\* variant: worker.onerror only logs
SlotKept(slot, w) == slot

\* the slot after worker.onerror ran
SlotAfterError(slot, w) == 0

\* variant: getWorker() hands out a new instance on every call
getWorkerAlwaysNew == nWorkers + 1

\* getWorker(): the instance send() posts to
getWorker == IF worker = 0 THEN nWorkers + 1 ELSE worker

\* variant: attachResponseListener(worker) is not called
OnlyErrorListener == {"error"}

\* the handlers getWorker() sets on a new instance
NewListeners == {"error", "message"}

\* send(request), reached through one of the six procedures of OPFSFileSystem
send(type, fileName, content) ==
    LET k == Len(calls) + 1
        id == randomUUID(Len(calls))
        w == getWorker
        request == [correlationId |-> id, type |-> type,
                    fileName |-> fileName, content |-> content]
    IN /\ worker = 0 => nWorkers < MaxWorkers
       /\ worker' = w
       /\ nWorkers' = IF worker = 0 THEN nWorkers + 1 ELSE nWorkers
       /\ live' = IF worker = 0 THEN live \cup {w} ELSE live
       /\ listeners' = IF worker = 0 THEN [listeners EXCEPT ![w] = NewListeners]
                       ELSE listeners
       /\ pending' = PendingSet(pending, id, k)
       /\ calls' = Append(calls, [req |-> request, w |-> w])
       /\ promise' = Append(promise, FreshPromise)
       /\ h' = Append(h, [IdleRun EXCEPT !.pc = "queued"])
       /\ outbox' = Append(outbox, <<>>)
       /\ UNCHANGED <<fs, hasOPFS, persist, errored, faults, discarded>>

\* worker.onerror of instance w fires; the instance is not terminated, its
\* context may stop by itself or keep running
WorkerError(w, stops) ==
    /\ w \in live
    /\ "error" \in listeners[w]
    /\ worker' = SlotAfterError(worker, w)
    /\ errored' = errored \cup {w}
    /\ live' = IF stops THEN live \ {w} ELSE live
    /\ UNCHANGED <<nWorkers, listeners, pending, calls, promise, h, outbox, fs,
                   hasOPFS, persist, faults, discarded>>

\* the oldest undelivered message event of the run for call k reaches the
\* onmessage listener of the instance it was posted from
Deliver(k) ==
    /\ k \in Issued
    /\ outbox[k] # <<>>
    /\ "message" \in listeners[calls[k].w]
    /\ OnMessage(Head(outbox[k]))
    /\ outbox' = [outbox EXCEPT ![k] = Tail(@)]
    /\ UNCHANGED <<worker, nWorkers, listeners, calls, h, fs, hasOPFS, persist, live,
                   errored, faults>>

\* the six procedures of OPFSFileSystem
Call(type, fileName, content) ==
    /\ Len(calls) < MaxCalls
    /\ type \in ApiTypes
    /\ send(type,
            IF type \in FileOps THEN fileName ELSE NoField,
            IF type \in WriteOps THEN content ELSE NoField)

\* an envelope whose type is none of the six
CallUnknown ==
    /\ Len(calls) < MaxCalls
    /\ send("bogus", NoField, NoField)

\* ---------------------------------------------------- the isolated context
MsgUnsupported == "OPFS is not supported in this browser."
MsgTypeError == "navigator.storage.getDirectory is not a function"
MsgNotFound == "NotFoundError"
MsgLocked == "NoModificationAllowedError"
MsgIO == "InvalidStateError"
MsgStale == "NotReadableError"
MsgPersist == "persist() rejected"
\* variant: the message does not name the type
MsgUnknownBare(type) == "Unknown message type"

\* the template string of the default branch
MsgUnknown(type) == "Unknown message type: " \o type

\* variant: reply tags the envelope with a fixed id
replyFixedId(correlationId, data) ==
    [correlationId |-> 1, ok |-> TRUE, data |-> data]

\* reply / replyError of self.onmessage: the envelope they post
reply(correlationId, data) ==
    [correlationId |-> correlationId, ok |-> TRUE, data |-> data]

\* variant: the caught error is posted as the data of a success envelope
replyErrorAsData(correlationId, message) ==
    [correlationId |-> correlationId, ok |-> TRUE, data |-> message]

replyError(correlationId, message) ==
    [correlationId |-> correlationId, ok |-> FALSE, error |-> message]

\* the run for call k is at pc on an instance whose context still runs
At(k, pc) == k \in Issued /\ calls[k].w \in live /\ h[k].pc = pc

\* self.postMessage(env) as the last statement of the run for call k
Post(k, env) ==
    /\ h' = [h EXCEPT ![k] = [@ EXCEPT !.pc = "done", !.out = Append(@, env)]]
    /\ outbox' = [outbox EXCEPT ![k] = Append(@, env)]

\* the run moves on to its next await
Goto(k, pc) ==
    /\ h' = [h EXCEPT ![k].pc = pc]
    /\ UNCHANGED outbox

\* variant: no name counts as hidden
StartsWithNothing(n) == FALSE

\* entry.name.startsWith(".")
StartsWithDot(n) == Len(n) > 0 /\ n[1] = 46

\* a.localeCompare(b) < 0 on the names used here: code unit order
RECURSIVE LocaleLess(_, _)
LocaleLess(a, b) ==
    IF b = <<>> THEN FALSE
    ELSE IF a = <<>> THEN TRUE
    ELSE IF a[1] # b[1] THEN a[1] < b[1]
    ELSE LocaleLess(Tail(a), Tail(b))

RECURSIVE SortNames(_)
SortNames(S) ==
    IF S = {} THEN <<>>
    ELSE LET m == CHOOSE x \in S : \A y \in S \ {x} : LocaleLess(x, y)
         IN <<m>> \o SortNames(S \ {m})

\* opfsList(): every entry of the root is a file
opfsList(f) == SortNames({n \in DOMAIN f : f[n].exists /\ ~StartsWithDot(n)})

\* variant: the new bytes are written over the old ones without truncate(0)
WriteBytesNoTruncate(bytes, content, fault) ==
    IF fault \in {"truncate", "write"} THEN bytes
    ELSE WriteAt(bytes, Encode(content), 0)

\* the try block of opfsCreate / opfsUpdate on the bytes of the file; fault
\* names the statement that throws
WriteBytes(bytes, content, fault) ==
    IF fault = "truncate" THEN bytes
    ELSE IF fault = "write" THEN Truncate(bytes, 0)
    ELSE WriteAt(Truncate(bytes, 0), Encode(content), 0)

\* variant: close() is skipped when a statement of the try block threw
LockKeptOnFault(lock, fault) == IF fault = "none" THEN 0 ELSE lock

\* the finally block: syncHandle.close() releases the lock
LockAfterWrite(lock, fault) == 0

\* what navigator.storage.persist can be: not there, or a function whose
\* promise resolves (true or false) or rejects
PersistOutcomes == {"absent", "granted", "denied", "rejects"}

\* case "init": opfsInit() then reply; the awaited persist() is not guarded
WInit(k) ==
    /\ At(k, "queued") /\ Req(k).type = "init"
    /\ Post(k, IF ~hasOPFS THEN replyError(Req(k).correlationId, MsgUnsupported)
               ELSE IF persist = "rejects"
               THEN replyError(Req(k).correlationId, MsgPersist)
               ELSE reply(Req(k).correlationId, Undefined))
    /\ UNCHANGED <<worker, nWorkers, listeners, pending, calls, promise, fs,
                   hasOPFS, persist, live, errored, faults, discarded>>

\* case "list"
WList(k) ==
    /\ At(k, "queued") /\ Req(k).type = "list"
    /\ Post(k, IF hasOPFS THEN reply(Req(k).correlationId, Arr(opfsList(fs)))
               ELSE replyError(Req(k).correlationId, MsgTypeError))
    /\ UNCHANGED <<worker, nWorkers, listeners, pending, calls, promise, fs,
                   hasOPFS, persist, live, errored, faults, discarded>>

\* default branch of the switch
WDefault(k) ==
    /\ At(k, "queued") /\ Req(k).type \notin ApiTypes
    /\ Post(k, replyError(Req(k).correlationId, MsgUnknown(Req(k).type)))
    /\ UNCHANGED <<worker, nWorkers, listeners, pending, calls, promise, fs,
                   hasOPFS, persist, live, errored, faults, discarded>>

\* variant: every writer asks for the file to be created
CreateFlagOfWriters(type) == type \in WriteOps

\* the create option passed to getFileHandle: true in opfsCreate only
CreateFlag(type) == type = "create"

\* root.getFileHandle(fileName, {create}) of opfsCreate / opfsUpdate / opfsRead,
\* and for opfsRead also fileHandle.getFile()
WGetFileHandle(k) ==
    /\ At(k, "queued") /\ Req(k).type \in {"create", "update", "read"}
    /\ LET n == Req(k).fileName
           id == Req(k).correlationId
       IN IF ~hasOPFS
          THEN Post(k, replyError(id, MsgTypeError)) /\ UNCHANGED fs
          ELSE IF fs[n].exists
          THEN /\ IF Req(k).type = "read"
                  THEN /\ h' = [h EXCEPT ![k] = [@ EXCEPT !.pc = "text",
                                                          !.snap = fs[n].mod]]
                       /\ UNCHANGED outbox
                  ELSE Goto(k, "sync")
               /\ UNCHANGED fs
          ELSE IF CreateFlag(Req(k).type)
          THEN /\ fs' = [fs EXCEPT ![n] = [exists |-> TRUE, bytes |-> <<>>,
                                           lock |-> 0, mod |-> <<k, 1>>]]
               /\ Goto(k, "sync")
          ELSE Post(k, replyError(id, MsgNotFound)) /\ UNCHANGED fs
    /\ UNCHANGED <<worker, nWorkers, listeners, pending, calls, promise,
                   hasOPFS, persist, live, errored, faults, discarded>>

\* fileHandle.createSyncAccessHandle(): takes the exclusive lock of the file
WCreateSyncAccessHandle(k) ==
    /\ At(k, "sync")
    /\ LET n == Req(k).fileName
           id == Req(k).correlationId
       IN IF ~fs[n].exists
          THEN Post(k, replyError(id, MsgNotFound)) /\ UNCHANGED fs
          ELSE IF fs[n].lock # 0
          THEN Post(k, replyError(id, MsgLocked)) /\ UNCHANGED fs
          ELSE /\ fs' = [fs EXCEPT ![n].lock = k]
               /\ Goto(k, "write")
    /\ UNCHANGED <<worker, nWorkers, listeners, pending, calls, promise,
                   hasOPFS, persist, live, errored, faults, discarded>>

\* variant: the reply is posted as soon as the handle is open, the write
\* section has not run and the handle stays open
WWriteReplyFirst(k, fault) ==
    /\ At(k, "write")
    /\ fault \in {"none", "truncate", "write", "flush"}
    /\ fault # "none" => faults < MaxFaults
    /\ faults' = IF fault = "none" THEN faults ELSE faults + 1
    /\ LET n == Req(k).fileName
           id == Req(k).correlationId
       IN /\ UNCHANGED fs
          /\ Post(k, IF fault # "none" THEN replyError(id, MsgIO)
                     ELSE IF Req(k).type = "create" THEN reply(id, Str(n))
                     ELSE reply(id, Undefined))
    /\ UNCHANGED <<worker, nWorkers, listeners, pending, calls, promise,
                   hasOPFS, persist, live, errored, discarded>>

\* try { encode; truncate; write; flush } finally { close }, then the reply
WWrite(k, fault) ==
    /\ At(k, "write")
    /\ fault \in {"none", "truncate", "write", "flush"}
    /\ fault # "none" => faults < MaxFaults
    /\ faults' = IF fault = "none" THEN faults ELSE faults + 1
    /\ LET n == Req(k).fileName
           id == Req(k).correlationId
       IN /\ fs' = [fs EXCEPT ![n] =
                      [@ EXCEPT !.bytes = WriteBytes(@, Req(k).content, fault),
                                !.lock = LockAfterWrite(@, fault),
                                !.mod = IF fault = "truncate" THEN @ ELSE <<k, 2>>]]
          /\ Post(k, IF fault # "none" THEN replyError(id, MsgIO)
                     ELSE IF Req(k).type = "create" THEN reply(id, Str(n))
                     ELSE reply(id, Undefined))
    /\ UNCHANGED <<worker, nWorkers, listeners, pending, calls, promise,
                   hasOPFS, persist, live, errored, discarded>>

\* file.text() of opfsRead; the File is a snapshot, and reading it after the
\* file changed either fails or yields the bytes now on disk
WText(k, fails) ==
    /\ At(k, "text")
    /\ LET n == Req(k).fileName
           id == Req(k).correlationId
       IN /\ fails => fs[n].exists /\ fs[n].mod # h[k].snap
          /\ Post(k, IF ~fs[n].exists THEN replyError(id, MsgNotFound)
                     ELSE IF fails THEN replyError(id, MsgStale)
                     ELSE reply(id, Str(Decode(fs[n].bytes))))
    /\ UNCHANGED <<worker, nWorkers, listeners, pending, calls, promise, fs,
                   hasOPFS, persist, live, errored, faults, discarded>>

\* variant: removing a name that is not there is not an error
WDeleteMissingOk(k) ==
    /\ At(k, "queued") /\ Req(k).type = "delete"
    /\ LET n == Req(k).fileName
           id == Req(k).correlationId
       IN IF ~hasOPFS
          THEN Post(k, replyError(id, MsgTypeError)) /\ UNCHANGED fs
          ELSE IF fs[n].exists /\ fs[n].lock # 0
          THEN Post(k, replyError(id, MsgLocked)) /\ UNCHANGED fs
          ELSE /\ fs' = [fs EXCEPT ![n] = NoFile]
               /\ Post(k, reply(id, Undefined))
    /\ UNCHANGED <<worker, nWorkers, listeners, pending, calls, promise,
                   hasOPFS, persist, live, errored, faults, discarded>>

\* variant: removeEntry empties the directory
removeEverything(f, n) == [m \in DOMAIN f |-> NoFile]

\* root.removeEntry(fileName) on the entries of the root
removeEntry(f, n) == [f EXCEPT ![n] = NoFile]

\* case "delete": root.removeEntry(fileName)
WDelete(k) ==
    /\ At(k, "queued") /\ Req(k).type = "delete"
    /\ LET n == Req(k).fileName
           id == Req(k).correlationId
       IN IF ~hasOPFS
          THEN Post(k, replyError(id, MsgTypeError)) /\ UNCHANGED fs
          ELSE IF ~fs[n].exists
          THEN Post(k, replyError(id, MsgNotFound)) /\ UNCHANGED fs
          ELSE IF fs[n].lock # 0
          THEN Post(k, replyError(id, MsgLocked)) /\ UNCHANGED fs
          ELSE /\ fs' = removeEntry(fs, n)
               /\ Post(k, reply(id, Undefined))
    /\ UNCHANGED <<worker, nWorkers, listeners, pending, calls, promise,
                   hasOPFS, persist, live, errored, faults, discarded>>

WorkerStep(k, faultsOn) ==
    \/ WInit(k)
    \/ WList(k)
    \/ WDefault(k)
    \/ WGetFileHandle(k)
    \/ WCreateSyncAccessHandle(k)
    \/ \E fault \in faultsOn : WWrite(k, fault)
    \/ \E fails \in BOOLEAN : WText(k, fails)
    \/ WDelete(k)

\* ---------------------------------------------------------- specifications
InitWith(supported, grants) ==
    /\ worker = 0
    /\ nWorkers = 0
    /\ listeners = [w \in 1..MaxWorkers |-> {}]
    /\ pending = <<>>
    /\ calls = <<>>
    /\ promise = <<>>
    /\ h = <<>>
    /\ outbox = <<>>
    /\ fs = [n \in Names |-> NoFile]
    /\ hasOPFS \in supported
    /\ persist \in grants
    /\ live = {}
    /\ errored = {}
    /\ faults = 0
    /\ discarded = FALSE

\* the environment of the other specifications: the backend is there and the
\* persistent-storage request is granted
Init == InitWith({TRUE}, {"granted"})

\* the steps of the isolated contexts and of message delivery
Serve(limit, faultsOn) ==
    \/ \E k \in 1..limit : Deliver(k)
    \/ \E k \in 1..limit : WorkerStep(k, faultsOn)

\* concurrent callers, uncaught-error events at any moment; update, which runs
\* the statements of create on an existing file, is left to SpecSeq
Next ==
    \/ \E type \in ApiTypes \ {"update"}, fileName \in {NameA}, content \in {TextA} :
          Call(type, fileName, content)
    \/ CallUnknown
    \/ \E w \in 1..MaxWorkers, stops \in BOOLEAN : WorkerError(w, stops)
    \/ Serve(MaxCalls, {"none"})

Spec == Init /\ [][Next]_vars

\* the event loops keep running: a context that has not stopped takes its next
\* step, and a posted message event is dispatched
Fairness ==
    \A k \in 1..MaxCalls :
        WF_vars(WorkerStep(k, {"none"})) /\ WF_vars(Deliver(k))

\* concurrent callers of init and create, uncaught-error events at any moment
NextLive ==
    \/ \E type \in {"init", "create"} : Call(type, NameA, TextA)
    \/ \E w \in 1..MaxWorkers, stops \in BOOLEAN : WorkerError(w, stops)
    \/ \E k \in 1..MaxCalls : Deliver(k)
    \/ \E k \in 1..MaxCalls : WInit(k)
    \/ \E k \in 1..MaxCalls : WGetFileHandle(k)
    \/ \E k \in 1..MaxCalls : WCreateSyncAccessHandle(k)
    \/ \E k \in 1..MaxCalls : WWrite(k, "none")

SpecLive == Init /\ [][NextLive]_vars /\ Fairness

\* a message event whose envelope no run of this model posted: the listener
\* takes whatever event.data it is handed. Its id is that of the first call
\* (pending, settled, or on an invalidated instance) or one never issued
StrayIds == {1, MaxCalls + 1}
StrayEnvelopes ==
    {reply(id, Undefined) : id \in StrayIds}
        \cup {replyError(id, "stray") : id \in StrayIds}

Stray(env) ==
    /\ \E w \in 1..MaxWorkers : "message" \in listeners[w]
    /\ OnMessage(env)
    /\ UNCHANGED <<worker, nWorkers, listeners, calls, h, outbox, fs, hasOPFS, persist,
                   live, errored, faults>>

NextOpen ==
    \/ \E type \in {"init", "list"} : Call(type, NoField, NoField)
    \/ \E env \in StrayEnvelopes : Stray(env)
    \/ \E w \in 1..MaxWorkers, stops \in BOOLEAN : WorkerError(w, stops)
    \/ \E k \in 1..MaxCalls : Deliver(k)
    \/ \E k \in 1..MaxCalls : WInit(k)
    \/ \E k \in 1..MaxCalls : WList(k)

SpecOpen == Init /\ [][NextOpen]_vars

\* one caller that awaits each call before it issues the next
CallAwaited(type, fileName, content) ==
    /\ Len(calls) < MaxSeqCalls
    /\ \A j \in Issued : Settled(j)
    /\ send(type,
            IF type \in FileOps THEN fileName ELSE NoField,
            IF type \in WriteOps THEN content ELSE NoField)

NextSeq ==
    \/ \E type \in ApiTypes \cup {"bogus"}, fileName \in {NameA},
          content \in {TextBC, TextA, TextBomA, TextLone} :
          CallAwaited(type, fileName, content)
    \/ Serve(MaxSeqCalls, {"none"})

SpecSeq == Init /\ [][NextSeq]_vars

\* the statements of the try block that may throw, and "none"
AllFaults == {"none", "truncate", "write", "flush"}

\* one caller that awaits each call; the backend may be missing and the
\* statements on the sync handle may throw
NextFault ==
    \/ \E type \in ApiTypes \cup {"bogus"}, content \in {TextA, TextBC} :
          CallAwaited(type, NameA, content)
    \/ Serve(MaxSeqCalls, AllFaults)

SpecFault == InitWith(BOOLEAN, {"granted"}) /\ [][NextFault]_vars

\* one caller that awaits each call and works on several names, one of them
\* dot-prefixed
CallNamed(type, fileName) ==
    /\ Len(calls) < MaxListCalls
    /\ \A j \in Issued : Settled(j)
    /\ send(type,
            IF type \in FileOps THEN fileName ELSE NoField,
            IF type \in WriteOps THEN TextA ELSE NoField)

NextNames ==
    \/ \E type \in {"create", "read", "delete"}, fileName \in Names :
          CallNamed(type, fileName)
    \/ CallNamed("list", NoField)
    \/ \E k \in 1..MaxListCalls : Deliver(k)
    \/ \E k \in 1..MaxListCalls : WList(k)
    \/ \E k \in 1..MaxListCalls : WGetFileHandle(k)
    \/ \E k \in 1..MaxListCalls : WCreateSyncAccessHandle(k)
    \/ \E k \in 1..MaxListCalls : WWrite(k, "none")
    \/ \E k \in 1..MaxListCalls : WText(k, FALSE)
    \/ \E k \in 1..MaxListCalls : WDelete(k)

SpecNames == Init /\ [][NextNames]_vars

\* concurrent callers of init and list in any environment: the backend may be
\* missing, persist may be missing, resolve or reject
NextEnv ==
    \/ \E type \in {"init", "list"} : Call(type, NoField, NoField)
    \/ \E k \in 1..MaxCalls : Deliver(k)
    \/ \E k \in 1..MaxCalls : WInit(k)
    \/ \E k \in 1..MaxCalls : WList(k)

SpecEnv == InitWith(BOOLEAN, PersistOutcomes) /\ [][NextEnv]_vars

\* one caller that awaits each call and works on two names; the statements on
\* the sync handle may throw
NextFrame ==
    \/ \E type \in ApiTypes \cup {"bogus"}, fileName \in {NameA, NameB} :
          CallAwaited(type, fileName, TextBC)
    \/ Serve(MaxSeqCalls, AllFaults)

SpecFrame == Init /\ [][NextFrame]_vars

\* a caller that issues its writes of one name together, none awaited: each
\* call is made while all earlier ones are outstanding
CallTogether(type, content) ==
    /\ Len(calls) < MaxCalls
    /\ \A j \in Issued : ~Settled(j)
    /\ send(type, NameA, content)

NextRace ==
    \/ \E type \in WriteOps, content \in {TextA, TextBC} : CallTogether(type, content)
    \/ \E k \in 1..MaxCalls : Deliver(k)
    \/ \E k \in 1..MaxCalls : WGetFileHandle(k)
    \/ \E k \in 1..MaxCalls : WCreateSyncAccessHandle(k)
    \/ \E k \in 1..MaxCalls, fault \in AllFaults : WWrite(k, fault)

SpecRace == Init /\ [][NextRace]_vars

\* ------------------------------------------------------------------ claims
Fulfilled(k) == promise[k].st = "fulfilled"
Rejected(k) == promise[k].st = "rejected"
Outstanding(k) == k \in Issued /\ ~Settled(k)

\* promise k holds what envelope env prescribes
Carries(k, env) ==
    IF env.ok THEN Fulfilled(k) /\ promise[k].val = env.data
    ELSE Rejected(k) /\ promise[k].val = Err(env.error)

\* C1: calls outstanding together have different correlation ids, the
\* resolvers of a call are invoked at most once, and a settled call holds the
\* data or error of the envelope posted by the run for its own request
CorrelationUnique ==
    /\ \A j, k \in Issued :
          (j # k /\ Outstanding(j) /\ Outstanding(k))
              => Req(j).correlationId # Req(k).correlationId
    /\ \A k \in Issued :
          /\ promise[k].n <= 1
          /\ Settled(k) => (h[k].out # <<>> /\ Carries(k, h[k].out[1]))

\* C1 witness: the second call has settled while the first, issued before it,
\* is still outstanding with its reply already in flight
SettledOutOfOrder ==
    /\ Len(calls) >= 2
    /\ Settled(2) /\ Outstanding(1) /\ outbox[1] # <<>>

\* C2: a finished run of self.onmessage has posted exactly one envelope, with
\* the correlation id of its request; an unfinished run has posted none, and
\* while its context runs it can always take its next step
ExactlyOneReply ==
    \A k \in Issued :
        IF h[k].pc = "done"
        THEN Len(h[k].out) = 1
             /\ h[k].out[1].correlationId = Req(k).correlationId
        ELSE /\ h[k].out = <<>>
             /\ calls[k].w \in live => ENABLED WorkerStep(k, {"none"})

\* C2 witness: an unrecognized type has been answered, and so has a read whose
\* executor threw
RepliedToAllKinds ==
    \E j, k \in Issued :
        /\ h[j].pc = "done" /\ Req(j).type = "read" /\ ~h[j].out[1].ok
        /\ h[k].pc = "done" /\ Req(k).type = "bogus"

\* C3: under fair scheduling every issued call is eventually settled, unless
\* some instance reports an uncaught error
AllSettleIfNoError ==
    \A k \in 1..MaxCalls :
        [](k \in Issued => <>((k \in Issued /\ Settled(k)) \/ errored # {}))

\* C3 witness: every call the bound allows was issued and all have settled,
\* and no instance has reported an error
AllSettledNoError ==
    /\ Len(calls) = MaxCalls
    /\ \A k \in Issued : Settled(k)
    /\ errored = {}

\* C6: a call is never posted to an instance that has reported an uncaught
\* error, and under fair scheduling it is settled, with the result of its own
\* request, unless the instance it was posted to reports an error itself
CrashIsolation ==
    /\ [][\A k \in 1..MaxCalls :
            (Len(calls) < k /\ Len(calls') >= k) => calls'[k].w \notin errored]_vars
    /\ \A k \in 1..MaxCalls :
          [](k \in Issued =>
                <>(k \in Issued /\ (Settled(k) \/ calls[k].w \in errored)))
    /\ [](\A k \in Issued : Settled(k) => Carries(k, h[k].out[1]))

\* C6 witness: call A is outstanding on an instance that reported an error,
\* call B was posted to another instance and holds its own result
SecondCallServed ==
    \E a, b \in Issued :
        /\ a < b
        /\ Outstanding(a) /\ calls[a].w \in errored
        /\ calls[b].w # calls[a].w /\ calls[b].w \notin errored
        /\ Settled(b) /\ Carries(b, h[b].out[1])

\* C7, as claimed: a call outstanding on an instance that has reported an
\* uncaught error is not settled by any later step
AbandonedNeverSettle ==
    [][\A k \in 1..MaxCalls :
          (Outstanding(k) /\ calls[k].w \in errored) => promise'[k].st = "pending"]_vars

\* C8: a received envelope whose correlation id has no pending entry leaves
\* every promise, the registry and the worker slot as they were
DiscardUnknown ==
    [][\A env \in StrayEnvelopes :
          (env.correlationId \notin DOMAIN pending /\ Stray(env))
              => (promise' = promise /\ pending' = pending /\ worker' = worker)]_vars

\* C8 witness: an envelope was dropped while a call was outstanding on an
\* instance that had been invalidated
DroppedWhilePending ==
    /\ discarded
    /\ \E k \in Issued : Outstanding(k) /\ calls[k].w \in errored

\* C9, as claimed: at most one context is running
SingleLiveWorker == Cardinality(live) <= 1

\* C10: delivering an envelope for a pending id rejects that call with the
\* envelope's error string when ok is false, and fulfils it with the
\* envelope's data when ok is true
RelayVerbatim ==
    [][\A k \in 1..MaxCalls :
          (Deliver(k) /\ Head(outbox[k]).correlationId \in DOMAIN pending)
              => LET env == Head(outbox[k])
                     j == pending[env.correlationId]
                 IN IF env.ok
                    THEN promise'[j].st = "fulfilled" /\ promise'[j].val = env.data
                    ELSE promise'[j].st = "rejected"
                         /\ promise'[j].val = Err(env.error)]_vars

\* C10 witness: one call was rejected with the not-found message, another one
\* fulfilled with the name it stored
BothOutcomes ==
    \E j, k \in Issued :
        /\ Rejected(j) /\ promise[j].val = Err(MsgNotFound)
        /\ Fulfilled(k) /\ promise[k].val = Str(NameA)

\* no call between c and r writes or deletes the file
Untouched(c, r, name) ==
    \A j \in Issued :
        (c < j /\ j < r) =>
            ~(Req(j).type \in {"create", "update", "delete"} /\ Req(j).fileName = name)

\* C4, as claimed: a fulfilled create, then a read of the same name with no
\* write or delete of it in between, fulfils with the content created
RoundTrip ==
    \A c, r \in Issued :
        (/\ c < r
         /\ Req(c).type = "create" /\ Fulfilled(c)
         /\ Req(r).type = "read" /\ Req(r).fileName = Req(c).fileName
         /\ Untouched(c, r, Req(c).fileName)
         /\ Settled(r))
            => (Fulfilled(r) /\ promise[r].val = Str(Req(c).content))

\* C5, as claimed: create, update and read of one name, each awaited before
\* the next, make the read fulfil with the content of the update
UpdateOverwrite ==
    \A c \in Issued :
        (/\ c + 2 \in Issued
         /\ Req(c).type = "create" /\ Fulfilled(c)
         /\ Req(c + 1).type = "update" /\ Req(c + 1).fileName = Req(c).fileName
         /\ Req(c + 2).type = "read" /\ Req(c + 2).fileName = Req(c).fileName
         /\ Settled(c + 2))
            => (Fulfilled(c + 2) /\ promise[c + 2].val = Str(Req(c + 1).content))

\* C11: the run for an envelope whose type is none of the six posts one
\* failure envelope with the request's correlation id and the message
\* "Unknown message type: <type>", and its call is rejected with that message;
\* neither that run nor the delivery of its envelope changes a file, the
\* worker slot or the set of instances; the slot still holds the instance the
\* envelope went to, every later call is posted to it and, once settled,
\* holds the result of its own request
UnknownTypeAnswered ==
    /\ [](\A k \in Issued : Req(k).type \notin ApiTypes =>
            /\ h[k].pc = "done" =>
                  h[k].out = <<[correlationId |-> Req(k).correlationId,
                                ok |-> FALSE,
                                error |-> "Unknown message type: " \o Req(k).type]>>
            /\ Settled(k) =>
                  /\ Rejected(k)
                  /\ promise[k].val = Err("Unknown message type: " \o Req(k).type)
            /\ worker = calls[k].w /\ calls[k].w \in live
            /\ \A j \in Issued : j > k =>
                  /\ calls[j].w = calls[k].w
                  /\ Settled(j) => Carries(j, h[j].out[1]))
    /\ [][\A k \in 1..MaxSeqCalls :
            (/\ k \in Issued /\ Req(k).type \notin ApiTypes
             /\ (h'[k] # h[k] \/ promise'[k] # promise[k]))
                => /\ fs' = fs
                   /\ worker' = worker /\ nWorkers' = nWorkers
                   /\ live' = live /\ errored' = errored]_vars

\* C11 witness: a call of an unknown type was rejected, and a create issued
\* after it was fulfilled by the same instance
UnknownThenServed ==
    \E k, j \in Issued :
        /\ k < j
        /\ Req(k).type = "bogus" /\ Rejected(k)
        /\ Req(j).type = "create" /\ Fulfilled(j) /\ fs[NameA].exists
        /\ calls[j].w = calls[k].w

\* the statement run k is about to execute throws: the backend is missing, a
\* must-exist lookup finds no file, or the file is locked
ExecutorThrows(k) ==
    Req(k).type \in ApiTypes /\
    \/ ~hasOPFS
    \/ /\ h[k].pc = "queued" /\ Req(k).type \in {"read", "update", "delete"}
       /\ ~fs[Req(k).fileName].exists
    \/ /\ h[k].pc \in {"sync", "text"}
       /\ ~fs[Req(k).fileName].exists
    \/ /\ h[k].pc = "sync" \/ (h[k].pc = "queued" /\ Req(k).type = "delete")
       /\ fs[Req(k).fileName].lock # 0

\* C12: a run whose executor throws (the cases above, or a statement on the
\* sync handle failing) ends by posting one failure envelope with the id of
\* its request, and its call is rejected; no step of a run and no delivery of
\* its envelope changes the worker slot, the instances or their listeners, and
\* no instance ever reports an uncaught error or is replaced
ExecutorFailureContained ==
    /\ [](errored = {} /\ nWorkers <= 1 /\ \A k \in Issued : calls[k].w = 1)
    /\ [][\A k \in 1..MaxSeqCalls :
            (k \in Issued /\ (h'[k] # h[k] \/ promise'[k] # promise[k]))
                => /\ worker' = worker /\ nWorkers' = nWorkers
                   /\ listeners' = listeners /\ live' = live
                   /\ errored' = errored
                   /\ (h[k].pc # "done" /\ (ExecutorThrows(k) \/ faults' # faults))
                         => /\ h'[k].pc = "done"
                            /\ Len(h'[k].out) = 1
                            /\ ~h'[k].out[1].ok
                            /\ h'[k].out[1].correlationId = Req(k).correlationId
                   /\ (promise'[k] # promise[k] /\ ~Head(outbox[k]).ok)
                         => promise'[k].st = "rejected"]_vars

\* C12 witness: one call was rejected for a failed write and one for a missing
\* file, a third one was fulfilled, all by the first instance, which is still
\* in the slot
FailuresThenServed ==
    \E i, j, k \in Issued :
        /\ Rejected(i) /\ promise[i].val = Err(MsgIO)
        /\ Rejected(j) /\ promise[j].val = Err(MsgNotFound)
        /\ i < k /\ j < k /\ Fulfilled(k)
        /\ worker = 1 /\ nWorkers = 1 /\ calls[k].w = 1

\* the calls before k, each awaited, left a file of this name: one of them
\* created it and no later one deleted it
ExistsBefore(k, name) ==
    \E c \in 1..(k - 1) :
        /\ Req(c).type = "create" /\ Req(c).fileName = name /\ Fulfilled(c)
        /\ \A j \in (c + 1)..(k - 1) :
              ~(Req(j).type = "delete" /\ Req(j).fileName = name /\ Fulfilled(j))

\* C13: a read that follows a fulfilled delete of its name, with no create of
\* that name in between, is rejected with the not-found error when it settles;
\* and a delete of a name that no file has is rejected with the not-found
\* error, and its run leaves the files as they were
DeleteThenReadFails ==
    /\ [](\A d, r \in Issued :
            (/\ d < r
             /\ Req(d).type = "delete" /\ Fulfilled(d)
             /\ Req(r).type = "read" /\ Req(r).fileName = Req(d).fileName
             /\ \A j \in (d + 1)..(r - 1) :
                   ~(Req(j).type = "create" /\ Req(j).fileName = Req(d).fileName)
             /\ Settled(r))
                => (Rejected(r) /\ promise[r].val = Err(MsgNotFound)))
    /\ [](\A k \in Issued :
            (/\ Req(k).type = "delete" /\ Settled(k)
             /\ ~ExistsBefore(k, Req(k).fileName))
                => (Rejected(k) /\ promise[k].val = Err(MsgNotFound)))
    /\ [][\A k \in 1..MaxSeqCalls :
            (/\ k \in Issued /\ Req(k).type = "delete"
             /\ h'[k] # h[k] /\ ~fs[Req(k).fileName].exists)
                => fs' = fs]_vars

\* C13 witness: a file was created and deleted, and the read of its name that
\* followed was rejected
ReadAfterDeleteRejected ==
    /\ Len(calls) = 3
    /\ Req(1).type = "create" /\ Fulfilled(1)
    /\ Req(2).type = "delete" /\ Fulfilled(2)
    /\ Req(3).type = "read" /\ Rejected(3) /\ promise[3].val = Err(MsgNotFound)

\* C14: the run for an update or a read whose name no file has ends at that
\* lookup with a failure envelope carrying the not-found error and leaves the
\* files as they were; the call is rejected with that error; and every file
\* there is was made by a create call for its name
MissingFileFails ==
    /\ [](\A k \in Issued :
            (/\ Req(k).type \in {"update", "read"} /\ Settled(k)
             /\ ~ExistsBefore(k, Req(k).fileName))
                => (Rejected(k) /\ promise[k].val = Err(MsgNotFound)))
    /\ [](\A n \in Names :
            fs[n].exists =>
                \E c \in Issued : Req(c).type = "create" /\ Req(c).fileName = n)
    /\ [][\A k \in 1..MaxSeqCalls :
            (/\ k \in Issued /\ Req(k).type \in {"update", "read"}
             /\ h'[k] # h[k] /\ ~fs[Req(k).fileName].exists)
                => /\ fs' = fs
                   /\ h'[k].pc = "done"
                   /\ ~h'[k].out[1].ok /\ h'[k].out[1].error = MsgNotFound]_vars

\* C14 witness: an update and a read of a name that was never created have
\* both been rejected, and there is still no such file
MissingBothRejected ==
    \E u, r \in Issued :
        /\ Req(u).type = "update" /\ Rejected(u)
        /\ Req(r).type = "read" /\ Rejected(r)
        /\ \A c \in Issued : Req(c).type # "create"
        /\ \A n \in Names : ~fs[n].exists

\* s holds, once each and in ascending order, the names that had a file
\* before call k and do not start with a dot
ListingBefore(s, k) ==
    /\ {s[i] : i \in DOMAIN s} =
           {n \in Names : ExistsBefore(k, n) /\ n[1] # 46}
    /\ \A i, j \in DOMAIN s : i < j => LocaleLess(s[i], s[j])

\* C15: a list call is fulfilled with the names, once each and ascending, of
\* the files that exist when it runs and whose name does not start with a
\* dot; a create of a dot-prefixed name is fulfilled with that name, a read of
\* it is fulfilled with the content created, and no listing contains it
ListVisibleSorted ==
    \A k \in Issued :
        /\ (Req(k).type = "list" /\ Settled(k)) =>
              /\ Fulfilled(k)
              /\ \E n \in 0..Cardinality(Names) :
                    \E s \in [1..n -> Names] :
                        promise[k].val = Arr(s) /\ ListingBefore(s, k)
              /\ \A i \in DOMAIN promise[k].val.a : promise[k].val.a[i] # NameHidden
        /\ (Req(k).type = "create" /\ Req(k).fileName = NameHidden /\ Settled(k)) =>
              (Fulfilled(k) /\ promise[k].val = Str(NameHidden))
        /\ (/\ Req(k).type = "read" /\ Req(k).fileName = NameHidden
            /\ ExistsBefore(k, NameHidden) /\ Settled(k)) =>
              (Fulfilled(k) /\ promise[k].val = Str(TextA))

\* C15 witness: the hidden name, then b, then a were created, and the list
\* call after them was fulfilled with a and b, in that order
ListedWithoutHidden ==
    /\ Len(calls) = 4
    /\ Req(1).type = "create" /\ Req(1).fileName = NameHidden /\ Fulfilled(1)
    /\ Req(2).type = "create" /\ Req(2).fileName = NameB /\ Fulfilled(2)
    /\ Req(3).type = "create" /\ Req(3).fileName = NameA /\ Fulfilled(3)
    /\ Req(4).type = "list" /\ Fulfilled(4)
    /\ promise[4].val = Arr(<<NameA, NameB>>)
    /\ fs[NameHidden].exists

\* C16: a file is locked only while the run that opened the sync handle is
\* between createSyncAccessHandle and its write section; a run that has posted
\* its envelope, with or without a failed truncate, write or flush, holds no
\* lock, and no awaited call is ever refused because the file is locked
HandleAlwaysClosed ==
    /\ \A n \in Names :
          fs[n].lock # 0 =>
              /\ fs[n].lock \in Issued
              /\ h[fs[n].lock].pc = "write"
              /\ h[fs[n].lock].out = <<>>
    /\ \A k \in Issued :
          h[k].out # <<>> => (h[k].out[1].ok \/ h[k].out[1].error # MsgLocked)

\* C16 witness: a write was rejected because a statement on the sync handle
\* threw, and a later create, update or delete of that name was fulfilled
ServedAfterFailedWrite ==
    \E i, k \in Issued :
        /\ i < k
        /\ Req(i).type \in WriteOps /\ Rejected(i) /\ promise[i].val = Err(MsgIO)
        /\ Req(k).type \in {"create", "update", "delete"}
        /\ Req(k).fileName = Req(i).fileName
        /\ Fulfilled(k)

\* C17, as claimed: a read that is fulfilled holds the complete content of a
\* create or update call for its name (the files start absent, so the content
\* before a write is that of an earlier write), never the empty file a create
\* has made and not yet written
ReadSeesWholeWrite ==
    \A r \in Issued :
        (Req(r).type = "read" /\ Fulfilled(r)) =>
            \E c \in Issued :
                /\ Req(c).type \in WriteOps
                /\ Req(c).fileName = Req(r).fileName
                /\ promise[r].val = Str(Req(c).content)

\* C18, as claimed: when the write section of a create or update on a file
\* that was there before the call ends in a failure, the file holds the bytes
\* it held before or the complete encoding of the new content
WriteAllOrNothing ==
    [][\A k \in 1..MaxSeqCalls :
          (/\ k \in Issued /\ Req(k).type \in WriteOps
           /\ h[k].pc = "write" /\ h'[k].pc = "done" /\ ~h'[k].out[1].ok
           /\ fs[Req(k).fileName].mod # <<k, 1>>)
              => fs'[Req(k).fileName].bytes
                    \in {fs[Req(k).fileName].bytes, Encode(Req(k).content)}]_vars

\* C19: a create that is awaited is fulfilled, with the name it was given,
\* whether or not a file of that name was there; when its write section ends
\* the file exists and holds the UTF-8 encoding of the content and nothing of
\* what it held before
CreateUpserts ==
    /\ [](\A k \in Issued :
            (Req(k).type = "create" /\ Settled(k)) =>
                (Fulfilled(k) /\ promise[k].val = Str(Req(k).fileName)))
    /\ [][\A k \in 1..MaxSeqCalls :
            (/\ k \in Issued /\ Req(k).type = "create"
             /\ h[k].pc = "write" /\ h'[k].pc = "done")
                => /\ fs'[Req(k).fileName].exists
                   /\ fs'[Req(k).fileName].bytes = Encode(Req(k).content)
                   /\ h'[k].out[1].ok
                   /\ h'[k].out[1].data = Str(Req(k).fileName)]_vars

\* C19 witness: a create of a new name and then a create of the same name
\* with a shorter content were both fulfilled, and the file holds the second
CreatedTwice ==
    /\ Len(calls) >= 2
    /\ Req(1).type = "create" /\ Req(1).content = TextBC /\ Fulfilled(1)
    /\ Req(2).type = "create" /\ Req(2).content = TextA /\ Fulfilled(2)
    /\ promise[2].val = Str(NameA)
    /\ fs[NameA].exists /\ fs[NameA].bytes = <<97>>

\* C20, as claimed: an init call that settles is rejected with the unsupported
\* error when the backend is missing and is fulfilled with no payload when it
\* is there, whatever persist is or does
InitBestEffort ==
    \A k \in Issued :
        (Req(k).type = "init" /\ Settled(k)) =>
            IF hasOPFS
            THEN Fulfilled(k) /\ promise[k].val = Undefined
            ELSE Rejected(k) /\ promise[k].val = Err(MsgUnsupported)

\* C21: before the first call there is no instance and the slot is empty; a
\* call made while the slot holds an instance is posted to that instance, the
\* one of the call before it, and constructs nothing; an uncaught-error event
\* empties the slot and constructs nothing; a call made while the slot is
\* empty constructs one new instance, which has its message listener and its
\* error listener when the envelope is posted to it
WorkerLifecycle ==
    /\ [](/\ calls = <<>> => (nWorkers = 0 /\ worker = 0)
          /\ worker # 0 => (calls # <<>> /\ worker = calls[Len(calls)].w)
          /\ \A k \in Issued : listeners[calls[k].w] = {"error", "message"})
    /\ [][/\ Len(calls') > Len(calls) =>
                LET k == Len(calls') IN
                IF worker # 0
                THEN /\ calls'[k].w = worker /\ worker' = worker
                     /\ nWorkers' = nWorkers
                     /\ k > 1 => calls'[k].w = calls[k - 1].w
                ELSE /\ nWorkers' = nWorkers + 1
                     /\ calls'[k].w = nWorkers' /\ worker' = nWorkers'
                     /\ listeners[calls'[k].w] = {}
                     /\ listeners'[calls'[k].w] = {"error", "message"}
                     /\ h'[k].pc = "queued"
          /\ errored' # errored => (worker' = 0 /\ nWorkers' = nWorkers)]_vars

\* C21 witness: the first call went to the first instance, that instance
\* reported an error, and the second call went to a second instance, which
\* has both listeners and is in the slot
RecreatedAfterError ==
    /\ Len(calls) = 2
    /\ calls[1].w = 1 /\ 1 \in errored
    /\ calls[2].w = 2 /\ worker = 2 /\ nWorkers = 2
    /\ listeners[2] = {"error", "message"}

\* C22: the registry holds exactly the correlation ids of the calls issued
\* and not settled, each mapped to the resolvers of its own call; a call is in
\* it from the step that issues it, with its envelope queued at the instance,
\* and leaves it in the step that settles its promise
RegistryIsUnsettled ==
    /\ DOMAIN pending = {Req(k).correlationId : k \in {j \in Issued : ~Settled(j)}}
    /\ \A k \in Issued : ~Settled(k) => pending[Req(k).correlationId] = k
    /\ \A k \in Issued : Settled(k) => Req(k).correlationId \notin DOMAIN pending

\* C22 witness: the first call has settled and has no entry, the second one
\* is outstanding and has the only entry
OneEntryLeft ==
    /\ Len(calls) = 2
    /\ Settled(1) /\ ~Settled(2)
    /\ DOMAIN pending = {Req(2).correlationId}

\* C23: when the run of a create or update posts its success envelope, the
\* file holds the complete encoding of the content and the run holds no lock;
\* when the promise of an awaited create or update is fulfilled that is still
\* so, and the file is not locked at all
FulfilledAfterClose ==
    [][\A k \in 1..MaxSeqCalls :
          (k \in Issued /\ Req(k).type \in WriteOps) =>
              LET n == Req(k).fileName IN
              /\ (h[k].out = <<>> /\ h'[k].out # <<>> /\ h'[k].out[1].ok)
                    => /\ fs'[n].exists
                       /\ fs'[n].bytes = Encode(Req(k).content)
                       /\ fs'[n].lock = 0
              /\ (promise[k].st = "pending" /\ promise'[k].st = "fulfilled")
                    => /\ h[k].pc = "done"
                       /\ fs'[n].exists
                       /\ fs'[n].bytes = Encode(Req(k).content)
                       /\ fs'[n].lock = 0]_vars

\* C23 witness: an update was fulfilled, the file holds its content, unlocked,
\* and the call issued after the fulfilment, on the same file, was fulfilled
UpdateThenServed ==
    \E k \in Issued :
        /\ k + 1 \in Issued
        /\ Req(k).type = "update" /\ Fulfilled(k)
        /\ Req(k + 1).type \in {"read", "update"}
        /\ Req(k + 1).fileName = Req(k).fileName
        /\ Fulfilled(k + 1)
        /\ fs[Req(k).fileName].lock = 0

\* C24: a step of the run for a call leaves every file but the one the call
\* names as it was, whether the run ends in success or failure; the runs of
\* init, list, read and of an unknown type change no file at all; the run of a
\* delete changes its file only by removing it; issuing a call and delivering
\* an envelope change no file
FrameEffect ==
    [][/\ \A k \in 1..MaxSeqCalls :
             (k \in Issued /\ h'[k] # h[k]) =>
                 /\ \A n \in Names : n # Req(k).fileName => fs'[n] = fs[n]
                 /\ Req(k).type \notin {"create", "update", "delete"} => fs' = fs
                 /\ Req(k).type = "delete" =>
                       \A n \in Names : fs'[n] = fs[n] \/ ~fs'[n].exists
       /\ (\A k \in 1..MaxSeqCalls : k \in Issued => h'[k] = h[k]) => fs' = fs]_vars

\* C24 witness: a was created; a create of b failed in its write section; a
\* delete of b was fulfilled; a still holds what was created
OtherFileKept ==
    /\ Len(calls) = 3
    /\ Req(1).type = "create" /\ Req(1).fileName = NameA /\ Fulfilled(1)
    /\ Req(2).type = "create" /\ Req(2).fileName = NameB
    /\ Rejected(2) /\ promise[2].val = Err(MsgIO)
    /\ Req(3).type = "delete" /\ Req(3).fileName = NameB /\ Fulfilled(3)
    /\ fs[NameA].exists /\ fs[NameA].bytes = <<98, 99>>
    /\ ~fs[NameB].exists

\* C25, as claimed: when writes of one name that were outstanding together
\* have all settled, the file holds the complete content of a call that was
\* fulfilled, if there is one, and otherwise nothing was written to it
OneWriterWins ==
    (Len(calls) >= 2 /\ \A k \in Issued : Settled(k)) =>
        IF \E k \in Issued : Fulfilled(k)
        THEN \E k \in Issued :
                 Fulfilled(k) /\ fs[NameA].bytes = Encode(Req(k).content)
        ELSE fs[NameA].bytes = <<>>

\* C26, as claimed: an uncaught-error event of an instance that is not the
\* one in the slot leaves the slot as it is
StaleErrorIgnored ==
    [][\A w \in 1..MaxWorkers :
          (WorkerError(w, TRUE) \/ WorkerError(w, FALSE)) /\ worker # 0 /\ w # worker
              => worker' = worker]_vars

====
